---- MODULE Spec2Model ----
(***************************************************************************)
(* Model of the chrony_exporter scrape path: Exporter.dial and             *)
(* Exporter.Collect (collector/collector.go) with the three queries        *)
(* getSourcesMetrics, getTrackingMetrics and getServerstatsMetrics.        *)
(* Several scrapes (goroutines calling Collect) run concurrently in one    *)
(* process; they share the scrape counter, the chrony.Logger package       *)
(* variable and the file system entry of the local peer path.              *)
(***************************************************************************)
EXTENDS Integers, Sequences, FiniteSets, TLC

\* ---------------------------------------------------------------- bounds
\* goroutines that may be inside Collect at the same time
NumProcs == 2
\* scrapes started in one run of the model (caps scrapeID)
MaxScrapes == 2
\* largest NSources the daemon reports
MaxSources == 2
\* e.timeout, in clock ticks
Timeout == 1
\* largest value of a field of a server statistics reply
MaxVal == 2
\* largest poll exponent of a source, and the smallest with the sign changed
MaxPoll == 24
\* most names in an answer of the resolver
MaxNames == 3
\* largest value of the bits of an address and of a reference identifier
MaxBits == 1

Procs == 1 .. NumProcs

\* ------------------------------------------------------------- constants
NoFile == 0
\* a socket file left at the local peer path by an earlier process
Foreign == -1
NoConn == 0

Families == {"sources", "tracking", "serverstats"}

ReplyTypes ==
  {"ReplySources", "ReplySourceData", "ReplyTracking", "ReplyServerStats",
   "ReplyServerStats2", "ReplyServerStats3", "ReplyServerStats4", "Other"}

\* metric names in the order the code sends them
SourcesNames ==
  <<"last_sample_age_seconds", "reachability_ratio", "reachability_success",
    "last_sample_offset_seconds", "last_sample_error_margin_seconds",
    "polling_interval_seconds", "state_info", "stratum">>

TrackingNames ==
  <<"info", "last_offset_seconds", "reference_timestamp_seconds",
    "system_time_seconds", "remote_reference", "rms_offset_seconds",
    "root_delay_seconds", "root_dispersion_seconds", "frequency_ppms",
    "residual_frequency_ppms", "skew_ppms", "update_interval_seconds",
    "stratum">>

ServerstatsNames ==
  <<"ntp_packets_received_total", "nts_ke_connections_accepted_total",
    "command_packets_received_total", "ntp_packets_dropped_total",
    "nts_ke_connections_dropped_total", "command_packets_dropped_total",
    "client_log_records_dropped_total", "authenticated_ntp_packets_total",
    "interleaved_ntp_packets_total", "ntp_timestamps_held",
    "ntp_timestamp_span_seconds", "ntp_daemon_rx_timestamps_total",
    "ntp_daemon_tx_timestamps_total", "ntp_kernel_rx_timestamps_total",
    "ntp_kernel_tx_timestamps_total", "ntp_hw_rx_timestamps_total",
    "ntp_hw_tx_timestamps_total">>

\* ------------------------------------------------------------- variables
VARIABLES
  e,            \* the Exporter: address scheme and the enable flags
  scrapeID,     \* package variable scrapeID (atomic.Uint64)
  chronyLogger, \* package variable chrony.Logger: id of the scrape that set it
  sockFile,     \* the file at the local peer path: NoFile, Foreign or creator id
  openConns,    \* the sockets that are open in the process
  pc,           \* position of each goroutine in Collect (its next blocking point)
  sid,          \* the scrape id the goroutine drew
  up,           \* local variable up of Collect
  conn,         \* the net.Conn returned by dial (NoConn for nil)
  sock,         \* the socket dial created, as captured by the cleanup closure
  cleanup,      \* the cleanup closure returned by dial
  deadline,     \* whether a read deadline is armed on the socket
  elapsed,      \* ticks since the deadline was computed (time.Now() at line 133)
  nsrc,         \* sources.NSources
  idx,          \* loop variable i of getSourcesMetrics
  ch,           \* the metrics sent on ch in this scrape
  reqs,         \* the requests handed to the connection in this scrape
  trace,        \* history of the scrape: dial error, query results, releases
  detail,       \* whether the run keeps the history of every reply and of the
                \* time of every request; such a run has one scrape at a time
  calc          \* one call of a function of the collector: its name, its
                \* arguments and, once it has returned, its result

vars ==
  <<e, scrapeID, chronyLogger, sockFile, openConns, pc, sid, up, conn, sock,
    cleanup, deadline, elapsed, nsrc, idx, ch, reqs, trace, detail, calc>>

\* the state of the scrapes
scrapes ==
  <<scrapeID, chronyLogger, sockFile, openConns, pc, sid, up, conn, sock,
    cleanup, deadline, elapsed, nsrc, idx, ch, reqs, trace, detail>>

shared == <<scrapeID, chronyLogger, sockFile, openConns>>

\* ---------------------------------------------------------------- helpers
Obs(fam, name, src, val) == [fam |-> fam, name |-> name, src |-> src, val |-> val]

\* collector.go:152, the metric the deferred function sends
UpObs(u) == <<Obs("up", "up", 0, u)>>

\* sources.go:294-301, the metrics of result number i
SourceObs(i) == [k \in 1 .. Len(SourcesNames) |-> Obs("sources", SourcesNames[k], i, 0)]

RECURSIVE SourcesObs(_)
\* sources.go:282-302, the metrics of results 0 .. n-1
SourcesObs(n) == IF n = 0 THEN <<>> ELSE SourcesObs(n - 1) \o SourceObs(n - 1)

\* tracking.go:192-231
TrackingObs == [k \in 1 .. Len(TrackingNames) |-> Obs("tracking", TrackingNames[k], 0, 0)]

\* part_002:250-299
ServerstatsObs ==
  [k \in 1 .. Len(ServerstatsNames) |-> Obs("serverstats", ServerstatsNames[k], 0, 0)]

\* the default case returns the zero record and no error
ParseServerStatsAny(t) == TRUE

\* part_002:200-236, whether parseServerStatsPacket accepts the reply type
ParseServerStatsOk(t) ==
  t \in {"ReplyServerStats", "ReplyServerStats2", "ReplyServerStats3", "ReplyServerStats4"}

IsUnix == e.unix

NewTrace ==
  [dialErr |-> FALSE, released |-> 0, made |-> FALSE, blockedBy |-> NoFile,
   dataErr |-> -1, res |-> [f \in Families |-> "none"],
   bad |-> [f \in Families |-> "none"]]

\* the deferred calls run in the order they were deferred
DeferredFifo == <<"deferUp", "deferCleanup">>

\* collector.go:150-155: the deferred functions in the order they run, the
\* one deferred last (cleanup) first
Deferred == <<"deferCleanup", "deferUp">>

\* where control goes when Collect returns
Return == Deferred[1]

\* where control goes when the deferred function at s has run
NextDeferred(s) == IF s = Deferred[1] THEN Deferred[2] ELSE "done"

\* collector.go:167,175,183: the first enabled query at or after family f
QueryPc(f) ==
  CASE f = "sources" ->
         IF e.collectSources THEN "srcReq"
         ELSE IF e.collectTracking THEN "trkReq"
         ELSE IF e.collectServerstats THEN "ssReq" ELSE Return
    [] f = "tracking" ->
         IF e.collectTracking THEN "trkReq"
         ELSE IF e.collectServerstats THEN "ssReq" ELSE Return
    [] f = "serverstats" ->
         IF e.collectServerstats THEN "ssReq" ELSE Return
    [] OTHER -> Return

\* Collect calls the next query whether it is enabled or not
AfterQueryAll(f) ==
  CASE f = "sources" -> "trkReq"
    [] f = "tracking" -> "ssReq"
    [] OTHER -> Return

\* the statement Collect continues with once the query of family f returned
AfterQuery(f) ==
  CASE f = "sources" -> QueryPc("tracking")
    [] f = "tracking" -> QueryPc("serverstats")
    [] OTHER -> Return

\* Collect returns at the first query error
AfterQueryErrReturn(f) == Return

\* collector.go:169-172 (and 177-180, 185-188): a query returned an error
AfterQueryErr(f) == AfterQuery(f)

\* the error branch leaves up alone
UpOnErrKeep(u) == u

\* collector.go:171,179,187
UpOnErr(u) == 0

\* Collect goes on to the queries whatever dial returned
AfterDialNoReturn(err) == "connected"

\* collector.go:156-159
AfterDial(err) == IF err THEN Return ELSE "connected"

\* only the closures of an open connection unlink the local path
CleanupRemovesOpen(c) == c = "closeRemove"

\* collector.go:126,130,137: the closures that unlink the local path
CleanupRemoves(c) == c \in {"remove", "closeRemove"}

\* collector.go:130,137,141: the closures that close the connection
CleanupCloses(c) == c = "closeRemove"

\* the loop sends the metrics of a result as soon as it has read it
SentInLoopEach(i) == SourceObs(i)

\* sources.go:269-280: the loop stores the result of round trip i in results
\* and sends nothing
SentInLoop(i) == <<>>

\* the loop skips the source whose round trip failed
AfterSourceDataErrContinue(i, n) == "continue"

\* sources.go:272-278: where the loop goes when round trip i failed
AfterSourceDataErr(i, n) == "return"

ReqStates == {"srcReq", "srcDataReq", "trkReq", "ssReq"}
WaitStates == {"srcWait", "srcDataWait", "trkWait", "ssWait"}

FamOf(s) ==
  CASE s \in {"srcReq", "srcWait", "srcDataReq", "srcDataWait"} -> "sources"
    [] s \in {"trkReq", "trkWait"} -> "tracking"
    [] OTHER -> "serverstats"

InProgress(p) == pc[p] \notin {"idle", "done"}

\* collector.go:167,175,183
Enabled(f) ==
  CASE f = "sources" -> e.collectSources
    [] f = "tracking" -> e.collectTracking
    [] OTHER -> e.collectServerstats

\* ------------------------------------------------------------------- Init
\* the process after NewExporter, before the first scrape
\* no scrape has begun
Fresh ==
  /\ scrapeID = 0
  /\ chronyLogger = 0
  /\ openConns = {}
  /\ pc = [p \in Procs |-> "idle"]
  /\ sid = [p \in Procs |-> 0]
  /\ up = [p \in Procs |-> 0]
  /\ conn = [p \in Procs |-> NoConn]
  /\ sock = [p \in Procs |-> NoConn]
  /\ cleanup = [p \in Procs |-> "none"]
  /\ deadline = [p \in Procs |-> FALSE]
  /\ elapsed = [p \in Procs |-> 0]
  /\ nsrc = [p \in Procs |-> 0]
  /\ idx = [p \in Procs |-> 0]
  /\ ch = [p \in Procs |-> <<>>]
  /\ reqs = [p \in Procs |-> <<>>]
  /\ trace = [p \in Procs |-> NewTrace]

\* no function is being called
NoCall == [fn |-> "none", in |-> <<>>, out |-> <<>>]

Setup ==
  /\ e \in [unix : BOOLEAN, chmodSocket : BOOLEAN, collectSources : BOOLEAN,
            collectTracking : BOOLEAN, collectServerstats : BOOLEAN]
  \* chmodSocket is read in the unix branch of dial only (collector.go:128)
  /\ ~e.unix => ~e.chmodSocket
  /\ sockFile \in {NoFile, Foreign}
  \* the local path is computed in the unix branch only (collector.go:120)
  /\ ~e.unix => sockFile = NoFile
  /\ Fresh
  /\ calc = NoCall

Init == Setup /\ detail = FALSE

\* the same process, observed in detail
SeqInit == Setup /\ detail = TRUE

\* ---------------------------------------------------------------- actions
\* A step of a goroutine runs from one access to the shared state, or one
\* blocking read, to the next.

\* every round trip of the loop asks for the first source
SourceIndexFirst(i) == 0

\* sources.go:271, NewSourceDataPacket(int32(i)): the index round trip i of
\* the loop asks for
SourceIndex(i) == i

\* the request Client.Communicate writes when the goroutine reaches s
\* (sources.go:256,271, tracking.go:181, part_002:239)
\* with sequence number q, at time t
Request(s, i, q, t) ==
  CASE s = "srcReq" ->
         [fam |-> "sources", kind |-> "sources", index |-> 0, seq |-> q, at |-> t]
    [] s = "srcDataReq" ->
         [fam |-> "sources", kind |-> "sourcedata", index |-> SourceIndex(i),
          seq |-> q, at |-> t]
    [] s = "trkReq" ->
         [fam |-> "tracking", kind |-> "tracking", index |-> 0, seq |-> q, at |-> t]
    [] OTHER ->
         [fam |-> "serverstats", kind |-> "serverstats", index |-> 0, seq |-> q, at |-> t]

\* collector.go:163, the Sequence the client of a scrape is created with
ClientSequence == 1

\* the largest uint8 (sources.go:291-292)
MaxUint8 == 255

\* the Sequence of the chrony.Client a query works on when it reaches s with
\* the requests r written so far: getSourcesMetrics, getTrackingMetrics and
\* getServerstatsMetrics receive the client by value (sources.go:255,
\* tracking.go:180, part_002:238), so each starts from the Sequence of
\* Collect's client and only the loop of getSourcesMetrics carries it on
CopySequence(r, s) ==
  IF s = "srcDataReq" THEN r[Len(r)].seq ELSE ClientSequence

\* Client.Communicate assigns the next sequence number to the request
NextSequence(q) == q + 1

\* whether the reply echoes the sequence number of the request
SequenceOk(req, rseq) == rseq = req.seq

\* what Client.Communicate may do with a reply whose sequence number differs:
\* return an error (TRUE) or return the packet (FALSE).  The repository
\* compares no sequence numbers itself and the client library is not part of
\* it, so both are possible here.
Validates == BOOLEAN

\* the blocking read that follows the write of the request of s
WaitOf(s) ==
  CASE s = "srcReq" -> "srcWait"
    [] s = "srcDataReq" -> "srcDataWait"
    [] s = "trkReq" -> "trkWait"
    [] OTHER -> "ssWait"

\* control of p moves to s; when s is a call of Client.Communicate the request
\* (with source index i) is written and p blocks in the read
Goto(p, s, i) ==
  IF s \in ReqStates
    THEN /\ reqs' = [reqs EXCEPT ![p] =
                    Append(@, Request(s, i, NextSequence(CopySequence(reqs[p], s)),
                                      IF detail THEN elapsed[p] ELSE 0))]
         /\ pc' = [pc EXCEPT ![p] = WaitOf(s)]
    ELSE /\ reqs' = reqs
         /\ pc' = [pc EXCEPT ![p] = s]

\* a query of family f returned nil after sending the metrics obs; tr is the
\* history so far
QueryOk(p, f, obs, tr) ==
  /\ ch' = [ch EXCEPT ![p] = @ \o obs]
  /\ trace' = [tr EXCEPT ![p].res[f] = "ok"]
  /\ up' = up
  /\ Goto(p, AfterQuery(f), 0)

\* a query of family f returned an error
QueryErr(p, f, tr) ==
  /\ ch' = ch
  /\ trace' = [tr EXCEPT ![p].res[f] = "err"]
  /\ up' = [up EXCEPT ![p] = UpOnErr(@)]
  /\ Goto(p, AfterQueryErr(f), 0)

\* up outlives the call and starts with the value the last scrape left
KeepUp(u) == u

\* collector.go:148, var up float64: a new variable, zero, in every call;
\* u is the value the goroutine last held
DeclareUp(u) == 0

\* the counter is read and not advanced
LoadScrapeID(n) == n

\* collector.go:146, scrapeID.Add(1): the new value of the counter, which is
\* also the value returned; the addition is one atomic step
AddScrapeID(n) == n + 1

\* collector.go:145-149; a new scrape runs in the first free goroutine
CollectStart(p) ==
  /\ pc[p] \in {"idle", "done"}
  /\ \A q \in Procs : q < p => InProgress(q)
  /\ detail => \A q \in Procs : ~InProgress(q)
  /\ scrapeID < MaxScrapes
  /\ scrapeID' = AddScrapeID(scrapeID)
  /\ sid' = [sid EXCEPT ![p] = AddScrapeID(scrapeID)]
  /\ up' = [up EXCEPT ![p] = DeclareUp(@)]
  /\ conn' = [conn EXCEPT ![p] = NoConn]
  /\ sock' = [sock EXCEPT ![p] = NoConn]
  /\ cleanup' = [cleanup EXCEPT ![p] = "none"]
  /\ deadline' = [deadline EXCEPT ![p] = FALSE]
  /\ elapsed' = [elapsed EXCEPT ![p] = 0]
  /\ nsrc' = [nsrc EXCEPT ![p] = 0]
  /\ idx' = [idx EXCEPT ![p] = 0]
  /\ ch' = [ch EXCEPT ![p] = <<>>]
  /\ reqs' = [reqs EXCEPT ![p] = <<>>]
  /\ trace' = [trace EXCEPT ![p] = NewTrace]
  /\ pc' = [pc EXCEPT ![p] = "dial"]
  /\ UNCHANGED <<e, detail, calc, chronyLogger, sockFile, openConns>>

\* collector.go:133-137: dial arms the deadline and returns the connection.
\* SetReadDeadline does not fail on a socket that was just created.
DialReturn(p) ==
  /\ deadline' = [deadline EXCEPT ![p] = TRUE]
  /\ elapsed' = [elapsed EXCEPT ![p] = 0]
  /\ cleanup' = [cleanup EXCEPT ![p] = "closeRemove"]
  /\ pc' = [pc EXCEPT ![p] = AfterDial(FALSE)]

\* collector.go:117-127: bind the local path and connect to the daemon's
DialUnix(p) ==
  /\ pc[p] = "dial"
  /\ IsUnix
  /\ \E outcome \in {"bindErr", "connectErr", "ok"} :
       /\ outcome # "bindErr" => sockFile = NoFile
       /\ sockFile' = IF outcome = "bindErr" THEN sockFile ELSE sid[p]
       /\ trace' = [trace EXCEPT ![p].made = (outcome # "bindErr"),
                                 ![p].dialErr = (outcome # "ok"),
                                 ![p].blockedBy =
                                   IF outcome = "bindErr" THEN sockFile ELSE NoFile]
       /\ sock' = [sock EXCEPT ![p] = IF outcome = "ok" THEN sid[p] ELSE NoConn]
       /\ openConns' = IF outcome = "ok" THEN openConns \cup {sid[p]} ELSE openConns
       /\ IF outcome # "ok"
            THEN /\ cleanup' = [cleanup EXCEPT ![p] = "remove"]
                 /\ pc' = [pc EXCEPT ![p] = AfterDial(TRUE)]
                 /\ UNCHANGED <<conn, deadline, elapsed>>
            ELSE IF e.chmodSocket
              THEN /\ pc' = [pc EXCEPT ![p] = "chmod"]
                   /\ UNCHANGED <<conn, cleanup, deadline, elapsed>>
              ELSE /\ conn' = [conn EXCEPT ![p] = sid[p]]
                   /\ DialReturn(p)
  /\ UNCHANGED <<e, detail, calc, scrapeID, chronyLogger, sid, up, nsrc, idx, ch, reqs>>

\* collector.go:128-132
Chmod(p) ==
  /\ pc[p] = "chmod"
  /\ \E ok \in BOOLEAN :
       /\ ok => sockFile # NoFile
       /\ trace' = [trace EXCEPT ![p].dialErr = ~ok]
       /\ IF ok
            THEN /\ conn' = [conn EXCEPT ![p] = sock[p]]
                 /\ DialReturn(p)
            ELSE /\ cleanup' = [cleanup EXCEPT ![p] = "closeRemove"]
                 /\ pc' = [pc EXCEPT ![p] = AfterDial(TRUE)]
                 /\ UNCHANGED <<conn, deadline, elapsed>>
  /\ UNCHANGED <<e, detail, calc, shared, sid, up, sock, nsrc, idx, ch, reqs>>

\* collector.go:140-141
DialUDP(p) ==
  /\ pc[p] = "dial"
  /\ ~IsUnix
  /\ \E ok \in BOOLEAN :
       /\ sock' = [sock EXCEPT ![p] = IF ok THEN sid[p] ELSE NoConn]
       /\ conn' = [conn EXCEPT ![p] = IF ok THEN sid[p] ELSE NoConn]
       /\ openConns' = IF ok THEN openConns \cup {sid[p]} ELSE openConns
       /\ trace' = [trace EXCEPT ![p].dialErr = ~ok]
       /\ pc' = [pc EXCEPT ![p] = AfterDial(~ok)]
  /\ cleanup' = [cleanup EXCEPT ![p] = "noop"]
  /\ UNCHANGED <<e, detail, calc, scrapeID, chronyLogger, sockFile, sid, up, deadline,
                 elapsed, nsrc, idx, ch, reqs>>

\* collector.go:161-167: up = 1, the client, chrony.Logger, then the first
\* enabled query
Connected(p) ==
  /\ pc[p] = "connected"
  /\ up' = [up EXCEPT ![p] = 1]
  /\ chronyLogger' = sid[p]
  /\ Goto(p, QueryPc("sources"), 0)
  /\ UNCHANGED <<e, detail, calc, scrapeID, sockFile, openConns, sid, conn, sock, cleanup,
                 deadline, elapsed, nsrc, idx, ch, trace>>

\* sources.go:269-280: the loop moves on to index i+1, and past the loop
\* sends the metrics of the results (sources.go:282-304)
LoopNext(p, tr) ==
  /\ idx' = [idx EXCEPT ![p] = @ + 1]
  /\ IF idx[p] + 1 < nsrc[p]
       THEN /\ Goto(p, "srcDataReq", idx[p] + 1)
            /\ trace' = tr
            /\ ch' = [ch EXCEPT ![p] = @ \o SentInLoop(idx[p])]
            /\ up' = up
       ELSE QueryOk(p, "sources", SentInLoop(idx[p]) \o SourcesObs(nsrc[p]), tr)

\* Client.Communicate returned an error, or the reply has the wrong type
Failed(p, tr0) ==
  LET tr == IF pc[p] = "srcDataWait" /\ trace[p].dataErr = -1
              THEN [tr0 EXCEPT ![p].dataErr = idx[p]]
              ELSE tr0
  IN IF pc[p] = "srcDataWait" /\ AfterSourceDataErr(idx[p], nsrc[p]) # "return"
       THEN LoopNext(p, tr) /\ nsrc' = nsrc
       ELSE QueryErr(p, FamOf(pc[p]), tr) /\ UNCHANGED <<nsrc, idx>>

\* whether the read deadline of the socket has passed
Expired(p) == deadline[p] /\ elapsed[p] >= Timeout

\* the request p waits for the reply of
Outstanding(p) == reqs[p][Len(reqs[p])]

\* the reply types that are variants of the record the read at s asks for
KnownTypes(s) ==
  CASE s = "srcWait" -> {"ReplySources"}
    [] s = "srcDataWait" -> {"ReplySourceData"}
    [] s = "trkWait" -> {"ReplyTracking"}
    [] OTHER -> {"ReplyServerStats", "ReplyServerStats2", "ReplyServerStats3",
                 "ReplyServerStats4"}

\* history: what was wrong with the reply of type t and sequence number rseq
Verdict(p, t, rseq) ==
  IF t \notin KnownTypes(pc[p]) THEN "type"
  ELSE IF rseq # Outstanding(p).seq THEN "seq" ELSE "none"

\* the sequence numbers a reply to p may echo: that of the outstanding
\* request or, for a late reply, that of the request before.  A late reply
\* leads to no state that the other replies and CommErr do not lead to, so
\* the runs without history leave it out.
Echoes(p) ==
  IF detail THEN {Outstanding(p).seq - 1, Outstanding(p).seq}
  ELSE {Outstanding(p).seq}

\* the daemon answers with a reply of type t that echoes sequence number rseq
\* (sources.go:256-280, tracking.go:181-234, part_002:239-301)
Reply(p) ==
  /\ pc[p] \in WaitStates
  /\ ~Expired(p)
  /\ \E t \in ReplyTypes, n \in 0 .. MaxSources, rseq \in Echoes(p) :
     \E checked \in IF SequenceOk(Outstanding(p), rseq) THEN {TRUE}
                    ELSE Validates :
       LET tr == IF detail
                   THEN [trace EXCEPT ![p].bad[FamOf(pc[p])] = Verdict(p, t, rseq)]
                   ELSE trace
       IN IF checked /\ ~SequenceOk(Outstanding(p), rseq) THEN Failed(p, tr)
          ELSE
       CASE pc[p] = "srcWait" /\ t = "ReplySources" ->
              /\ nsrc' = [nsrc EXCEPT ![p] = n]
              /\ idx' = [idx EXCEPT ![p] = 0]
              /\ IF n > 0
                   THEN /\ Goto(p, "srcDataReq", 0)
                        /\ trace' = tr
                        /\ UNCHANGED <<ch, up>>
                   ELSE QueryOk(p, "sources", SourcesObs(n), tr)
         [] pc[p] = "srcDataWait" /\ t = "ReplySourceData" ->
              LoopNext(p, tr) /\ nsrc' = nsrc
         [] pc[p] = "trkWait" /\ t = "ReplyTracking" ->
              QueryOk(p, "tracking", TrackingObs, tr) /\ UNCHANGED <<nsrc, idx>>
         [] pc[p] = "ssWait" /\ ParseServerStatsOk(t) ->
              QueryOk(p, "serverstats", ServerstatsObs, tr) /\ UNCHANGED <<nsrc, idx>>
         [] OTHER -> Failed(p, tr)
  /\ UNCHANGED <<e, detail, calc, shared, sid, conn, sock, cleanup, deadline, elapsed>>

\* Client.Communicate returns an error other than a timeout
CommErr(p) ==
  /\ pc[p] \in WaitStates
  /\ Failed(p, trace)
  /\ UNCHANGED <<e, detail, calc, shared, sid, conn, sock, cleanup, deadline, elapsed>>

\* the read fails because the deadline set at collector.go:133 has passed
ReadTimeout(p) ==
  /\ pc[p] \in WaitStates
  /\ Expired(p)
  /\ Failed(p, trace)
  /\ UNCHANGED <<e, detail, calc, shared, sid, conn, sock, cleanup, deadline, elapsed>>

\* time passes towards the deadline while the goroutine is blocked in a read
Tick(p) ==
  /\ pc[p] \in WaitStates
  /\ deadline[p]
  /\ elapsed[p] < Timeout
  /\ elapsed' = [elapsed EXCEPT ![p] = @ + 1]
  /\ UNCHANGED <<e, detail, calc, shared, pc, sid, up, conn, sock, cleanup, deadline, nsrc,
                 idx, ch, reqs, trace>>

\* collector.go:155: the deferred cleanup()
Cleanup(p) ==
  /\ pc[p] = "deferCleanup"
  /\ openConns' = IF CleanupCloses(cleanup[p]) THEN openConns \ {sock[p]} ELSE openConns
  /\ sockFile' = IF CleanupRemoves(cleanup[p]) THEN NoFile ELSE sockFile
  /\ trace' = [trace EXCEPT ![p].released = @ + 1]
  /\ pc' = [pc EXCEPT ![p] = NextDeferred("deferCleanup")]
  /\ UNCHANGED <<e, detail, calc, scrapeID, chronyLogger, sid, up, conn, sock, cleanup,
                 deadline, elapsed, nsrc, idx, ch, reqs>>

\* collector.go:150-153: the deferred function that sends the up metric
EmitUp(p) ==
  /\ pc[p] = "deferUp"
  /\ ch' = [ch EXCEPT ![p] = @ \o UpObs(up[p])]
  /\ pc' = [pc EXCEPT ![p] = NextDeferred("deferUp")]
  /\ UNCHANGED <<e, detail, calc, shared, sid, up, conn, sock, cleanup, deadline, elapsed,
                 nsrc, idx, trace, reqs>>

Step(p) ==
  \/ CollectStart(p)
  \/ DialUnix(p)
  \/ Chmod(p)
  \/ DialUDP(p)
  \/ Connected(p)
  \/ Reply(p)
  \/ CommErr(p)
  \/ ReadTimeout(p)
  \/ Tick(p)
  \/ Cleanup(p)
  \/ EmitUp(p)

Next == \E p \in Procs : Step(p)

Spec == Init /\ [][Next]_vars

\* scrapes that do not overlap, with the history of every reply
SeqSpec == SeqInit /\ [][Next]_vars

TypeOK ==
  /\ scrapeID \in 0 .. MaxScrapes
  /\ \A p \in Procs : up[p] \in {0, 1} /\ idx[p] \in 0 .. MaxSources

\* weak fairness on the steps of the goroutines and on the passing of time;
\* the daemon (Reply, CommErr) owes nothing
FairSpec ==
  /\ Spec
  /\ \A p \in Procs :
       /\ WF_vars(DialUnix(p))
       /\ WF_vars(Chmod(p))
       /\ WF_vars(DialUDP(p))
       /\ WF_vars(Connected(p))
       /\ WF_vars(ReadTimeout(p))
       /\ WF_vars(Tick(p))
       /\ WF_vars(Cleanup(p))
       /\ WF_vars(EmitUp(p))

\* ------------------------------------------------------------- functions
\* The functions the queries apply to the records of a reply.  A run of
\* FnSpec is one call: FnInit draws the arguments, the action of the function
\* stores what it returns.

\* the fields of chrony.ReplyServerStats4, the canonical record
StatsFields ==
  {"NTPHits", "NKEHits", "CMDHits", "NTPDrops", "NKEDrops", "CMDDrops",
   "LogDrops", "NTPAuthHits", "NTPInterleavedHits", "NTPTimestamps",
   "NTPSpanSeconds", "NTPDaemonRxtimestamps", "NTPDaemonTxtimestamps",
   "NTPKernelRxtimestamps", "NTPKernelTxtimestamps", "NTPHwRxTimestamps",
   "NTPHwTxTimestamps"}

\* the fields a reply of type t carries
ReplyFields(t) ==
  CASE t = "ReplyServerStats" ->
         {"NTPHits", "CMDHits", "NTPDrops", "CMDDrops", "LogDrops"}
    [] t = "ReplyServerStats2" ->
         {"NTPHits", "NKEHits", "CMDHits", "NTPDrops", "NKEDrops", "CMDDrops",
          "LogDrops", "NTPAuthHits"}
    [] t = "ReplyServerStats3" ->
         {"NTPHits", "NKEHits", "CMDHits", "NTPDrops", "NKEDrops", "CMDDrops",
          "LogDrops", "NTPAuthHits", "NTPInterleavedHits", "NTPTimestamps",
          "NTPSpanSeconds"}
    [] t = "ReplyServerStats4" -> StatsFields
    [] OTHER -> {}

\* var serverStats chrony.ReplyServerStats4 (part_002:201)
ZeroStats == [n \in StatsFields |-> 0]

\* serverStats.n = uint64(stats.n) for the fields named: a widening
\* conversion, which keeps the value
Assign(serverStats, stats, names) ==
  [n \in StatsFields |-> IF n \in names THEN stats[n] ELSE serverStats[n]]

\* the second case leaves NTPAuthHits out
parseServerStatsPacketNoAuth(p) ==
  LET stats == p.f
  IN CASE p.type = "ReplyServerStats" ->
            [err |-> FALSE,
             serverStats |-> Assign(ZeroStats, stats,
               {"NTPHits", "CMDHits", "NTPDrops", "CMDDrops", "LogDrops"})]
       [] p.type = "ReplyServerStats2" ->
            [err |-> FALSE,
             serverStats |-> Assign(ZeroStats, stats,
               {"NTPHits", "NKEHits", "CMDHits", "NTPDrops", "NKEDrops",
                "CMDDrops", "LogDrops"})]
       [] p.type = "ReplyServerStats3" ->
            [err |-> FALSE,
             serverStats |-> Assign(ZeroStats, stats,
               {"NTPHits", "NKEHits", "CMDHits", "NTPDrops", "NKEDrops",
                "CMDDrops", "LogDrops", "NTPAuthHits", "NTPInterleavedHits",
                "NTPTimestamps", "NTPSpanSeconds"})]
       [] p.type = "ReplyServerStats4" -> [err |-> FALSE, serverStats |-> stats]
       [] OTHER -> [err |-> TRUE, serverStats |-> ZeroStats]

\* part_002:200-236
parseServerStatsPacket(p) ==
  LET stats == p.f
  IN CASE p.type = "ReplyServerStats" ->
            [err |-> FALSE,
             serverStats |-> Assign(ZeroStats, stats,
               {"NTPHits", "CMDHits", "NTPDrops", "CMDDrops", "LogDrops"})]
       [] p.type = "ReplyServerStats2" ->
            [err |-> FALSE,
             serverStats |-> Assign(ZeroStats, stats,
               {"NTPHits", "NKEHits", "CMDHits", "NTPDrops", "NKEDrops",
                "CMDDrops", "LogDrops", "NTPAuthHits"})]
       [] p.type = "ReplyServerStats3" ->
            [err |-> FALSE,
             serverStats |-> Assign(ZeroStats, stats,
               {"NTPHits", "NKEHits", "CMDHits", "NTPDrops", "NKEDrops",
                "CMDDrops", "LogDrops", "NTPAuthHits", "NTPInterleavedHits",
                "NTPTimestamps", "NTPSpanSeconds"})]
       [] p.type = "ReplyServerStats4" -> [err |-> FALSE, serverStats |-> stats]
       [] OTHER -> [err |-> TRUE, serverStats |-> ZeroStats]

\* replies to the server statistics request: every field holds b, but for
\* one field d that holds v
StatsReplies ==
  {[type |-> t, f |-> [n \in ReplyFields(t) |-> IF n = d THEN v ELSE b]] :
     t \in ReplyTypes, d \in StatsFields, b \in 1 .. MaxVal, v \in 0 .. MaxVal}

\* uint8(x)
Uint8(x) == x % (MaxUint8 + 1)

\* bits.OnesCount8
RECURSIVE OnesCount8(_)
OnesCount8(b) == IF b = 0 THEN 0 ELSE (b % 2) + OnesCount8(b \div 2)

\* sources.go:291, float64(bits.OnesCount8(uint8(r.Reachability))) / 8.0 in
\* thousandths: every multiple of 1/8 is a whole number of thousandths
lastReachRatio(reachability) == (OnesCount8(Uint8(reachability)) * 1000) \div 8

\* the highest bit in the place of the lowest
lastReachSuccessHigh(reachability) == Uint8(reachability) \div 128

\* sources.go:292, uint8(r.Reachability) & 1
lastReachSuccess(reachability) == Uint8(reachability) % 2

RECURSIVE Double(_, _)
Double(x, k) == IF k = 0 THEN x ELSE Double(2 * x, k - 1)

\* the exponent taken without its sign
pollIntervalUnsigned(poll) ==
  [num |-> Double(1, IF poll < 0 THEN -poll ELSE poll), den |-> 1]

\* sources.go:299, math.Pow(2, float64(r.Poll)) as the fraction num / den:
\* a power of two in this range is a float64 without rounding
pollInterval(poll) ==
  IF poll >= 0 THEN [num |-> Double(1, poll), den |-> 1]
  ELSE [num |-> 1, den |-> Double(1, -poll)]

\* A name is a sequence of characters.  The byte of a character, by which
\* sort.Strings compares
Byte(c) == CASE c = "," -> 44 [] c = "." -> 46 [] c = "a" -> 97 [] OTHER -> 98

\* names the resolver may return
NamePool ==
  {<<"a">>, <<"a", ".">>, <<"b", ".", ".">>, <<"a", "b">>, <<".">>}

\* what net.LookupAddr returns: an error, or up to MaxNames names
Answers ==
  {[err |-> TRUE, names |-> <<>>]} \cup
  {[err |-> FALSE, names |-> s] :
     s \in UNION {[1 .. n -> NamePool] : n \in 0 .. MaxNames}}

\* a net.IP: an IPv4 or an IPv6 address of the given bits, 0 for all zero
Addresses == [v4 : BOOLEAN, bits : 0 .. MaxBits]

\* address.String(), the literal address
String(address) ==
  <<IF address.v4 THEN "ipv4" ELSE "ipv6", ToString(address.bits)>>

\* IP.IsUnspecified: 0.0.0.0 or ::
IsUnspecified(address) == address.bits = 0

\* IP.To4() != nil
To4(address) == address.v4

\* binary.BigEndian.Uint32(r.IPAddr), the first four bytes
Uint32(address) == address.bits

\* chrony.RefidToString, the tag of a reference identifier
RefidToString(refid) == <<"refid", ToString(refid)>>

\* strings.TrimRight(name, cutset) for a cutset of one character
RECURSIVE TrimRight(_, _)
TrimRight(name, c) ==
  IF name # <<>> /\ name[Len(name)] = c
    THEN TrimRight(SubSeq(name, 1, Len(name) - 1), c)
    ELSE name

\* a < b for strings: byte by byte, a proper prefix first
RECURSIVE Less(_, _)
Less(a, b) ==
  IF b = <<>> THEN FALSE
  ELSE IF a = <<>> THEN TRUE
  ELSE IF Byte(a[1]) # Byte(b[1]) THEN Byte(a[1]) < Byte(b[1])
  ELSE Less(Tail(a), Tail(b))

RECURSIVE Insert(_, _)
Insert(x, s) ==
  IF s = <<>> THEN <<x>>
  ELSE IF Less(s[1], x) THEN <<s[1]>> \o Insert(x, Tail(s))
  ELSE <<x>> \o s

RECURSIVE InsertionSort(_)
InsertionSort(s) ==
  IF s = <<>> THEN <<>> ELSE Insert(s[1], InsertionSort(Tail(s)))

\* the names are left in the order of the answer
SortStringsKeep(names) == names

\* collector.go:207, sort.Strings(names)
SortStrings(names) == InsertionSort(names)

\* slices.Compact: of each run of equal elements the first
RECURSIVE Compact(_)
Compact(s) ==
  IF Len(s) < 2 THEN s
  ELSE IF s[1] = s[2] THEN Compact(Tail(s))
  ELSE <<s[1]>> \o Compact(Tail(s))

\* strings.Join(s, sep)
RECURSIVE Join(_, _)
Join(s, sep) ==
  IF s = <<>> THEN <<>>
  ELSE IF Len(s) = 1 THEN s[1]
  ELSE s[1] \o <<sep>> \o Join(Tail(s), sep)

\* an empty answer is joined like any other
dnsLookupAny(address, answer) ==
  IF ~e.dnsLookups THEN [name |-> String(address), lookups |-> 0]
  ELSE IF answer.err
    THEN [name |-> String(address), lookups |-> 1]
  ELSE LET names == [i \in DOMAIN answer.names |->
                       TrimRight(answer.names[i], ".")]
       IN [name |-> Join(Compact(SortStrings(names)), ","), lookups |-> 1]

\* collector.go:192-209, with the answer net.LookupAddr gives for the
\* address: the name returned and the number of lookups made
dnsLookup(address, answer) ==
  IF ~e.dnsLookups THEN [name |-> String(address), lookups |-> 0]
  ELSE IF answer.err \/ Len(answer.names) < 1
    THEN [name |-> String(address), lookups |-> 1]
  ELSE LET names == [i \in DOMAIN answer.names |->
                       TrimRight(answer.names[i], ".")]
       IN [name |-> Join(Compact(SortStrings(names)), ","), lookups |-> 1]

\* the modes of a source: chrony.SourceModeClient, SourceModePeer,
\* SourceModeRef
Modes == {"client", "peer", "ref"}

\* sources.go:282-288, the name of a source record; and that nothing after
\* the replies makes getSourcesMetrics return an error (sources.go:304)
sourceName(r, answer) ==
  LET looked == dnsLookup(r.IPAddr, answer)
  IN [name |-> IF r.Mode = "ref" /\ To4(r.IPAddr)
                 THEN RefidToString(Uint32(r.IPAddr)) ELSE looked.name,
      lookups |-> looked.lookups,
      err |-> FALSE]

\* the address is not asked whether it is unspecified
chronyFormatNameLookup(tracking, answer) ==
  IF ~e.dnsLookups
    THEN [name |-> String(tracking.IPAddr), lookups |-> 0, err |-> FALSE]
  ELSE IF answer.err \/ Len(answer.names) < 1
    THEN [name |-> String(tracking.IPAddr), lookups |-> 1, err |-> FALSE]
  ELSE [name |-> TrimRight(answer.names[1], "."), lookups |-> 1, err |-> FALSE]

\* tracking.go:165-178, the name of the tracking record; and that nothing
\* after the reply makes getTrackingMetrics return an error (tracking.go:234)
chronyFormatName(tracking, answer) ==
  IF IsUnspecified(tracking.IPAddr)
    THEN [name |-> RefidToString(tracking.RefID), lookups |-> 0, err |-> FALSE]
  ELSE IF ~e.dnsLookups
    THEN [name |-> String(tracking.IPAddr), lookups |-> 0, err |-> FALSE]
  ELSE IF answer.err \/ Len(answer.names) < 1
    THEN [name |-> String(tracking.IPAddr), lookups |-> 1, err |-> FALSE]
  ELSE [name |-> TrimRight(answer.names[1], "."), lookups |-> 1, err |-> FALSE]

\* tracking.go:31-32, net.IPv4(127, 127, 1, 1): an IPv4 address that is not
\* the unspecified one
trackingLocalIP == [v4 |-> TRUE, bits |-> 1]

\* IP.Equal: the same address, an IPv4 address and its 16-byte form alike
Equal(a, b) == To4(a) = To4(b) /\ a.bits = b.bits

\* the unspecified address counts as local too
remoteTrackingUnspecified(address) ==
  IF Equal(address, trackingLocalIP) \/ IsUnspecified(address) THEN 0 ELSE 1

\* tracking.go:203-207, the value of the remote reference metric
remoteTracking(address) ==
  IF Equal(address, trackingLocalIP) THEN 0 ELSE 1

\* sources.go:282-301, the metrics of one result with their label values:
\* the address and the name, and for the info metric the mode as well (its
\* state label is left out)
SourceMetrics(r, answer) ==
  LET sourceAddress == String(r.IPAddr)
      name == sourceName(r, answer).name
  IN [k \in 1 .. Len(SourcesNames) |->
        [name |-> SourcesNames[k],
         labels |-> IF SourcesNames[k] = "state_info"
                      THEN <<sourceAddress, name, r.Mode>>
                      ELSE <<sourceAddress, name>>]]

\* sources.go:282-302, the metrics of the results in the order of the reply
RECURSIVE sourcesMetrics(_, _)
sourcesMetrics(results, answer) ==
  IF results = <<>> THEN <<>>
  ELSE SourceMetrics(results[1], answer) \o sourcesMetrics(Tail(results), answer)

\* the source records a reply may hold
SourceRecords == [IPAddr : Addresses, Mode : Modes]

\* the results of a sources query: up to MaxSources records
SourceLists == UNION {[1 .. n -> SourceRecords] : n \in 0 .. MaxSources}

\* the answers of at most one name
ShortAnswers == {a \in Answers : Len(a.names) <= 1}

\* the calls of function fn on the arguments in args
Calls(fn, args) == {[fn |-> fn, in |-> a, out |-> <<>>] : a \in args}

\* the exporters of the calls: the lookup setting is all a function reads
FnExporters ==
  [unix : {FALSE}, chmodSocket : {FALSE}, collectSources : {TRUE},
   collectTracking : {TRUE}, collectServerstats : {TRUE}, dnsLookups : BOOLEAN]

FnInit ==
  /\ e \in FnExporters
  /\ sockFile = NoFile
  /\ Fresh
  /\ detail = FALSE
  /\ \/ calc \in Calls("parseServerStatsPacket", StatsReplies)
     \/ calc \in Calls("reachability", 0 .. MaxUint8)
     \/ calc \in Calls("pollInterval", (0 - MaxPoll) .. MaxPoll)
     \/ calc \in Calls("dnsLookup", [address : Addresses, answer : Answers])
     \/ calc \in Calls("sourceName",
                       [r : [IPAddr : Addresses, Mode : Modes],
                        answer : Answers])
     \/ calc \in Calls("chronyFormatName",
                       [tracking : [IPAddr : Addresses, RefID : 0 .. MaxBits],
                        answer : Answers])
     \/ calc \in Calls("remoteTracking", Addresses)
     \/ calc \in Calls("sourcesMetrics",
                       [results : SourceLists, answer : ShortAnswers])

\* the call of fn returns
Returns(fn, result) ==
  /\ calc.fn = fn
  /\ calc.out = <<>>
  /\ calc' = [calc EXCEPT !.out = <<result>>]
  /\ UNCHANGED <<e, scrapes>>

CallParseServerStatsPacket ==
  Returns("parseServerStatsPacket", parseServerStatsPacket(calc.in))

\* sources.go:291-292
CallReachability ==
  Returns("reachability",
          [ratio |-> lastReachRatio(calc.in),
           success |-> lastReachSuccess(calc.in)])

CallPollInterval == Returns("pollInterval", pollInterval(calc.in))

CallDnsLookup ==
  Returns("dnsLookup", dnsLookup(calc.in.address, calc.in.answer))

CallSourceName ==
  Returns("sourceName", sourceName(calc.in.r, calc.in.answer))

CallChronyFormatName ==
  Returns("chronyFormatName",
          chronyFormatName(calc.in.tracking, calc.in.answer))

CallRemoteTracking == Returns("remoteTracking", remoteTracking(calc.in))

CallSourcesMetrics ==
  Returns("sourcesMetrics", sourcesMetrics(calc.in.results, calc.in.answer))

FnNext ==
  \/ CallParseServerStatsPacket
  \/ CallReachability
  \/ CallPollInterval
  \/ CallDnsLookup
  \/ CallSourceName
  \/ CallChronyFormatName
  \/ CallRemoteTracking
  \/ CallSourcesMetrics

FnSpec == FnInit /\ [][FnNext]_vars

\* the call of fn has returned
Returned(fn) == calc.fn = fn /\ calc.out # <<>>

\* ----------------------------------------------------------------- claims
\* the metrics of family f sent in the scrape of p
ObsOf(p, f) == LET IsF(o) == o.fam = f IN SelectSeq(ch[p], IsF)

\* the positions in reqs[p] of the requests of kind k
ReqsOf(p, k) == {i \in DOMAIN reqs[p] : reqs[p][i].kind = k}

\* every enabled query of the scrape of p returned nil
AllOk(p) == \A f \in Families : Enabled(f) => trace[p].res[f] = "ok"

\* C1: the up metric of a scrape is 1 if and only if dial returned no error
\* and every enabled query returned nil, and it is 0 otherwise
Inv_C1 ==
  \A p \in Procs : \A i \in DOMAIN ch[p] :
    ch[p][i].fam = "up" =>
      ch[p][i].val = (IF ~trace[p].dialErr /\ AllOk(p) THEN 1 ELSE 0)

Wit_C1 ==
  \E p \in Procs :
    /\ pc[p] = "done"
    /\ e.collectSources /\ e.collectTracking /\ e.collectServerstats
    /\ AllOk(p)
    /\ ch[p][Len(ch[p])] = Obs("up", "up", 0, 1)

\* C2: a scrape sends the up metric exactly once, as its last metric, and
\* after the cleanup closure has run
Inv_C2 ==
  \A p \in Procs :
    /\ Len(ObsOf(p, "up")) <= 1
    /\ pc[p] = "done" => Len(ObsOf(p, "up")) = 1
    /\ \A i \in DOMAIN ch[p] :
         ch[p][i].fam = "up" => i = Len(ch[p]) /\ trace[p].released = 1

Wit_C2 ==
  \E p \in Procs :
    /\ pc[p] = "done"
    /\ Len(ch[p]) > 1
    /\ ch[p][Len(ch[p])].fam = "up"
    /\ trace[p].released = 1

\* C3: when dial returns an error the scrape writes no request and sends
\* one metric only, up with value 0
Inv_C3 ==
  \A p \in Procs :
    trace[p].dialErr =>
      /\ reqs[p] = <<>>
      /\ \A i \in DOMAIN ch[p] : ch[p][i] = Obs("up", "up", 0, 0)
      /\ pc[p] = "done" => Len(ch[p]) = 1

Wit_C3 ==
  \E p \in Procs :
    /\ pc[p] = "done"
    /\ trace[p].dialErr
    /\ ch[p] = <<Obs("up", "up", 0, 0)>>

\* the metrics a query of family f sends when it returns nil
Expected(p, f) ==
  CASE f = "sources" -> SourcesObs(nsrc[p])
    [] f = "tracking" -> TrackingObs
    [] OTHER -> ServerstatsObs

\* C4: in a scrape whose dial succeeded, whichever queries fail, the first
\* request of every enabled query is written and every query that returns
\* nil has sent its metrics
Inv_C4 ==
  \A p \in Procs :
    pc[p] = "done" /\ ~trace[p].dialErr =>
      \A f \in Families :
        Enabled(f) =>
          /\ ReqsOf(p, f) # {}
          /\ trace[p].res[f] = "ok" => ObsOf(p, f) = Expected(p, f)

Wit_C4 ==
  \E p \in Procs :
    /\ pc[p] = "done"
    /\ trace[p].res["sources"] = "err"
    /\ trace[p].res["tracking"] = "err"
    /\ trace[p].res["serverstats"] = "ok"
    /\ ObsOf(p, "serverstats") = ServerstatsObs
    /\ ReqsOf(p, "tracking") # {}

\* C5: when the source data round trip of index k fails, no source data
\* request with a larger index is written, the tracking and serverstats
\* queries still run when enabled, and up is 0
Inv_C5 ==
  \A p \in Procs :
    trace[p].dataErr >= 0 =>
      /\ \A i \in ReqsOf(p, "sourcedata") : reqs[p][i].index <= trace[p].dataErr
      /\ trace[p].res["sources"] = "err"
      /\ ObsOf(p, "sources") = <<>>
      /\ pc[p] = "done" =>
           /\ e.collectTracking => ReqsOf(p, "tracking") # {}
           /\ e.collectServerstats => ReqsOf(p, "serverstats") # {}
           /\ ch[p][Len(ch[p])] = Obs("up", "up", 0, 0)

Wit_C5 ==
  \E p \in Procs :
    /\ pc[p] = "done"
    /\ trace[p].dataErr = 0
    /\ nsrc[p] >= 2
    /\ trace[p].res["tracking"] = "ok"
    /\ trace[p].res["serverstats"] = "ok"

\* C6: in local-socket mode the file a scrape created at the local peer path
\* no longer exists once the scrape has completed
Inv_C6 ==
  IsUnix =>
    /\ \A p \in Procs : pc[p] = "done" /\ trace[p].made => sockFile # sid[p]
    /\ sockFile \in {NoFile, Foreign} \cup {sid[p] : p \in {q \in Procs : InProgress(q)}}

Wit_C6 ==
  /\ IsUnix
  /\ \E p \in Procs :
       /\ pc[p] = "done"
       /\ trace[p].made
       /\ trace[p].dialErr
       /\ sockFile = NoFile

\* C7 (as claimed): in both modes the cleanup closure runs once per scrape
\* and closes the connection dial opened, so a completed scrape leaves no
\* connection open
Claim_C7 ==
  \A p \in Procs :
    pc[p] = "done" => trace[p].released = 1 /\ sid[p] \notin openConns

\* C8 (as claimed): in local-socket mode no bind fails on a file another
\* scrape of the process created, and the file a scrape created stays in
\* place until that scrape's own cleanup
Claim_C8 ==
  IsUnix =>
    \A p \in Procs :
      /\ trace[p].blockedBy \in {NoFile, Foreign}
      /\ (trace[p].made /\ pc[p] \in {"chmod", "connected", "deferCleanup"} \cup WaitStates)
           => sockFile = sid[p]

\* C9 (as claimed): the logging sink of the protocol client that a scrape
\* installed is still its own while its queries run
Claim_C9 ==
  \A p \in Procs : pc[p] \in WaitStates => chronyLogger = sid[p]

\* C10 (as claimed): in both modes a scrape blocked in a read completes
\* even when the daemon never answers
Claim_C10 ==
  \A p \in Procs : (pc[p] \in WaitStates) ~> (pc[p] = "done")

\* C11 (as claimed): in local-socket mode every read may wait the whole
\* timeout, counted from the write of its own request, before it fails
Claim_C11 ==
  IsUnix =>
    \A p \in Procs :
      pc[p] \in WaitStates /\ Expired(p) =>
        elapsed[p] - Outstanding(p).at >= Timeout

\* C12 (as claimed): the sequence numbers of the requests of a scrape are
\* strictly increasing, so no two requests of a scrape carry the same one
Claim_C12 ==
  \A p \in Procs : \A i, j \in DOMAIN reqs[p] :
    i < j => reqs[p][i].seq < reqs[p][j].seq

\* C15: a reply whose type is not a variant known for the query that reads
\* it makes the query return an error: the query sends no metric and up is 0
Inv_C15 ==
  \A p \in Procs : \A f \in Families :
    trace[p].bad[f] = "type" =>
      /\ trace[p].res[f] = "err"
      /\ ObsOf(p, f) = <<>>
      /\ up[p] = 0
      /\ \A i \in DOMAIN ch[p] : ch[p][i].fam = "up" => ch[p][i].val = 0

Wit_C15 ==
  \E p \in Procs :
    /\ pc[p] = "done"
    /\ trace[p].bad["serverstats"] = "type"
    /\ trace[p].bad["sources"] = "type"
    /\ trace[p].res["tracking"] = "ok"
    /\ ch[p][Len(ch[p])] = Obs("up", "up", 0, 0)

\* C14: for each of the four server statistics variants parseServerStatsPacket
\* returns, without an error, a record whose fields the variant carries have
\* the values of the reply and whose other fields are 0; so two replies that
\* agree on the fields of the oldest variant give the same values for them
Inv_C14 ==
  Returned("parseServerStatsPacket") /\ ParseServerStatsOk(calc.in.type) =>
    LET p == calc.in
        got == calc.out[1]
        Oldest == ReplyFields("ReplyServerStats")
    IN /\ ~got.err
       /\ \A n \in StatsFields :
            got.serverStats[n] = IF n \in DOMAIN p.f THEN p.f[n] ELSE 0
       /\ \A q \in StatsReplies :
            ParseServerStatsOk(q.type) /\ (\A n \in Oldest : q.f[n] = p.f[n]) =>
              \A n \in Oldest :
                parseServerStatsPacket(q).serverStats[n] = got.serverStats[n]

Wit_C14 ==
  /\ Returned("parseServerStatsPacket")
  /\ calc.in.type = "ReplyServerStats2"
  /\ calc.in.f["NTPAuthHits"] = 2
  /\ calc.in.f["NTPHits"] = 1
  /\ calc.out[1].serverStats["NTPAuthHits"] = 2
  /\ calc.out[1].serverStats["NTPHits"] = 1
  /\ calc.out[1].serverStats["NTPTimestamps"] = 0

\* the bits of b that are 1
OneBits(b) == {i \in 0 .. 7 : (b \div (2 ^ i)) % 2 = 1}

\* C16: for every reachability byte b the ratio is (number of 1 bits of b) / 8
\* and the success flag is the lowest bit of b: b = 1 gives 0.125 and 1,
\* b = 255 gives 1.0, b = 0 gives 0.0 and 0 (the ratio in thousandths)
Inv_C16 ==
  Returned("reachability") =>
    LET b == calc.in
        got == calc.out[1]
    IN /\ got.ratio * 8 = Cardinality(OneBits(b)) * 1000
       /\ got.success = (IF 0 \in OneBits(b) THEN 1 ELSE 0)
       /\ b = 1 => got = [ratio |-> 125, success |-> 1]
       /\ b = 255 => got.ratio = 1000
       /\ b = 0 => got = [ratio |-> 0, success |-> 0]

Wit_C16 ==
  /\ Returned("reachability")
  /\ calc.in = 254
  /\ calc.out[1] = [ratio |-> 875, success |-> 0]

\* C17: for every exponent x, negative, zero or positive, the polling interval
\* is 2 to the power x: 6 gives 64 and -1 gives 0.5
Inv_C17 ==
  Returned("pollInterval") =>
    LET x == calc.in
        got == calc.out[1]
    IN /\ x >= 0 => got.num = 2 ^ x /\ got.den = 1
       /\ x < 0 => got.num = 1 /\ got.den = 2 ^ (0 - x)
       /\ x = 6 => got = [num |-> 64, den |-> 1]
       /\ x = -1 => got = [num |-> 1, den |-> 2]

Wit_C17 ==
  /\ Returned("pollInterval")
  /\ calc.in = -3
  /\ calc.out[1] = [num |-> 1, den |-> 8]

\* the set of the names of an answer, without their trailing dots
Trimmed(answer) ==
  {TrimRight(answer.names[i], ".") : i \in DOMAIN answer.names}

\* the elements of the set S in ascending order, each once
Ascending(S) ==
  CHOOSE s \in [1 .. Cardinality(S) -> S] :
    /\ \A x \in S : \E i \in DOMAIN s : s[i] = x
    /\ \A i, j \in DOMAIN s : i < j => Less(s[i], s[j])

\* C18: with lookups enabled and a non-empty answer dnsLookup returns the
\* names without their trailing dots, in ascending order, each once, joined
\* by commas; every answer with the same set of names gives the same string
Inv_C18 ==
  Returned("dnsLookup") /\ e.dnsLookups /\ ~calc.in.answer.err
    /\ calc.in.answer.names # <<>> =>
    LET address == calc.in.address
        answer == calc.in.answer
        got == calc.out[1]
    IN /\ got.name = Join(Ascending(Trimmed(answer)), ",")
       /\ \A other \in Answers :
            ~other.err /\ Trimmed(other) = Trimmed(answer) =>
              dnsLookup(address, other).name = got.name

Wit_C18 ==
  /\ Returned("dnsLookup")
  /\ e.dnsLookups
  /\ calc.in.answer.names = << <<"b", ".", ".">>, <<"a", ".">>, <<"a">> >>
  /\ calc.out[1].name = <<"a", ",", "b">>

\* whether the record of the call is named by a tag and not by its address
Tagged ==
  \/ calc.fn = "sourceName"
       /\ calc.in.r.Mode = "ref" /\ To4(calc.in.r.IPAddr)
  \/ calc.fn = "chronyFormatName" /\ IsUnspecified(calc.in.tracking.IPAddr)

\* the address of the record of the call
RecordAddress ==
  IF calc.fn = "sourceName" THEN calc.in.r.IPAddr ELSE calc.in.tracking.IPAddr

\* the lookup of the call fails, finds nothing or is not made
NoAnswer ==
  ~e.dnsLookups \/ calc.in.answer.err \/ calc.in.answer.names = <<>>

\* C19 (as claimed): whatever the lookup gives the query meets no error; when
\* the lookup fails, finds nothing or is disabled the name is the literal
\* address, and when it is disabled no lookup is made
Claim_C19 ==
  Returned("sourceName") \/ Returned("chronyFormatName") =>
    /\ ~calc.out[1].err
    /\ NoAnswer => calc.out[1].name = String(RecordAddress)
    /\ ~e.dnsLookups => calc.out[1].lookups = 0

\* C19 (amended): as claimed, for the records that are not named by a tag
Inv_C19 ==
  Returned("sourceName") \/ Returned("chronyFormatName") =>
    /\ ~calc.out[1].err
    /\ NoAnswer /\ ~Tagged => calc.out[1].name = String(RecordAddress)
    /\ ~e.dnsLookups => calc.out[1].lookups = 0

Wit_C19 ==
  /\ Returned("sourceName")
  /\ e.dnsLookups
  /\ calc.in.answer.names = <<>>
  /\ ~calc.in.answer.err
  /\ calc.in.r.Mode = "client"
  /\ calc.out[1].name = String(calc.in.r.IPAddr)
  /\ calc.out[1].lookups = 1

\* C20 (as claimed): a tracking or source record with the unspecified address
\* is named by the tag of its reference identifier, whatever the lookup
\* setting and the mode, and no lookup is made for it
Claim_C20 ==
  /\ Returned("chronyFormatName") /\ IsUnspecified(calc.in.tracking.IPAddr) =>
       /\ calc.out[1].name = RefidToString(calc.in.tracking.RefID)
       /\ calc.out[1].lookups = 0
  /\ Returned("sourceName") /\ IsUnspecified(calc.in.r.IPAddr) =>
       /\ calc.out[1].name = RefidToString(Uint32(calc.in.r.IPAddr))
       /\ calc.out[1].lookups = 0

\* C20 (amended): a tracking record with the unspecified address is named by
\* the tag of its reference identifier, whatever the lookup setting, and no
\* lookup is made for it; a source record is named by the tag of the first
\* 32 bits of its address exactly when its mode is reference clock and its
\* address is IPv4, otherwise by what dnsLookup returns, and the lookup is
\* made for every source record when lookups are enabled
Inv_C20 ==
  /\ Returned("chronyFormatName") /\ IsUnspecified(calc.in.tracking.IPAddr) =>
       /\ calc.out[1].name = RefidToString(calc.in.tracking.RefID)
       /\ calc.out[1].lookups = 0
  /\ Returned("sourceName") =>
       /\ calc.out[1].name =
            IF calc.in.r.Mode = "ref" /\ To4(calc.in.r.IPAddr)
              THEN RefidToString(Uint32(calc.in.r.IPAddr))
              ELSE dnsLookup(calc.in.r.IPAddr, calc.in.answer).name
       /\ calc.out[1].lookups = (IF e.dnsLookups THEN 1 ELSE 0)

Wit_C20 ==
  /\ Returned("chronyFormatName")
  /\ e.dnsLookups
  /\ IsUnspecified(calc.in.tracking.IPAddr)
  /\ calc.in.tracking.RefID = 1
  /\ calc.in.answer.names = << <<"a", ".">> >>
  /\ calc.out[1] = [name |-> RefidToString(1), lookups |-> 0, err |-> FALSE]

\* C21: a scrape writes no request and sends no metric of a family that is
\* disabled, whatever the other flags and whatever the daemon replies
Inv_C21 ==
  \A p \in Procs : \A f \in Families :
    ~Enabled(f) =>
      /\ \A i \in DOMAIN reqs[p] : reqs[p][i].fam # f
      /\ ObsOf(p, f) = <<>>

Wit_C21 ==
  \E p \in Procs :
    /\ pc[p] = "done"
    /\ e.collectSources /\ ~e.collectTracking /\ e.collectServerstats
    /\ nsrc[p] = 1
    /\ AllOk(p)
    /\ Len(reqs[p]) = 3
    /\ ObsOf(p, "serverstats") = ServerstatsObs

\* C22: a query that returned an error has sent no metric of its family, not
\* even of the sources read before the round trip that failed; the metrics of
\* a family in a scrape are none or all of them
Inv_C22 ==
  \A p \in Procs : \A f \in Families :
    /\ trace[p].res[f] = "err" => ObsOf(p, f) = <<>>
    /\ ObsOf(p, f) # <<>> => ObsOf(p, f) = Expected(p, f) /\ trace[p].res[f] = "ok"

Wit_C22 ==
  \E p \in Procs :
    /\ pc[p] = "done"
    /\ nsrc[p] = 2
    /\ trace[p].dataErr = 1
    /\ ObsOf(p, "sources") = <<>>
    /\ ObsOf(p, "tracking") = TrackingObs

\* the requests of family f among those of p
FamReqs(p, f) == {i \in DOMAIN reqs[p] : reqs[p][i].fam = f}

\* the requests of a scrape so far: one source count request, then the
\* source data requests for 0, 1, ... below the count reported, then one
\* tracking request, then one server statistics request; a query that
\* returned nil made all its round trips
RoundTrips(p) ==
  LET r == reqs[p]
  IN /\ \A k \in {"sources", "tracking", "serverstats"} :
          Cardinality(ReqsOf(p, k)) <= 1
     /\ \A i \in ReqsOf(p, "sourcedata") :
          /\ i > 1
          /\ r[i - 1].fam = "sources"
          /\ r[i].index = Cardinality({j \in ReqsOf(p, "sourcedata") : j < i})
          /\ r[i].index < nsrc[p]
     /\ \A i, j \in DOMAIN r :
          i < j =>
            /\ r[i].fam = "tracking" => r[j].fam = "serverstats"
            /\ r[i].fam = "serverstats" => FALSE
     /\ trace[p].res["sources"] = "ok" =>
          Cardinality(FamReqs(p, "sources")) = nsrc[p] + 1
     /\ trace[p].res["tracking"] = "ok" =>
          Cardinality(FamReqs(p, "tracking")) = 1
     /\ trace[p].res["serverstats"] = "ok" =>
          Cardinality(FamReqs(p, "serverstats")) = 1

\* C26: a scrape writes a request only when the read of its previous request
\* has ended, never writes a request again, asks for the sources 0 .. N-1 in
\* this order after the count N, and makes N+1 round trips in a sources query
\* and one in a tracking or server statistics query that returns nil
Prop_C26 ==
  [][\A p \in Procs :
       /\ RoundTrips(p)'
       /\ reqs'[p] # reqs[p] /\ reqs'[p] # <<>> =>
            /\ Len(reqs'[p]) = Len(reqs[p]) + 1
            /\ SubSeq(reqs'[p], 1, Len(reqs[p])) = reqs[p]
            /\ pc[p] \in WaitStates \cup {"connected"}
            /\ pc'[p] \in WaitStates]_vars

Wit_C26 ==
  \E p \in Procs :
    /\ pc[p] = "done"
    /\ nsrc[p] = 2
    /\ AllOk(p)
    /\ e.collectSources /\ e.collectTracking /\ e.collectServerstats
    /\ Len(reqs[p]) = 5
    /\ reqs[p][3].index = 1

\* C28: whatever the interleaving, the n-th scrape to start draws the id n,
\* which no earlier scrape drew, so the ids of scrapes are pairwise distinct
\* and those handed out are 1 .. n
Prop_C28 ==
  [][/\ \A p \in Procs :
          pc[p] \in {"idle", "done"} /\ pc'[p] = "dial" =>
            /\ sid'[p] = scrapeID + 1
            /\ scrapeID' = scrapeID + 1
            /\ \A q \in Procs \ {p} : sid'[q] = sid[q] /\ sid[q] <= scrapeID
     /\ (\A p \in Procs : ~(pc[p] \in {"idle", "done"} /\ pc'[p] = "dial")) =>
          scrapeID' = scrapeID /\ sid' = sid
     /\ \A p, q \in Procs :
          p # q /\ sid'[p] # 0 => sid'[p] # sid'[q]]_vars

Wit_C28 ==
  /\ scrapeID = 2
  /\ \E p, q \in Procs :
       /\ pc[p] \in WaitStates /\ pc[q] \in WaitStates
       /\ sid[p] = 1 /\ sid[q] = 2

\* C29 (as claimed): the cleanup of a scrape whose bind failed, which made no
\* file, leaves the file at the local peer path as it is
Claim_C29 ==
  [][\A p \in Procs :
       pc[p] = "deferCleanup" /\ pc'[p] # "deferCleanup" /\ ~trace[p].made =>
         sockFile' = sockFile]_vars

\* the sequences that hold every element of the set S once
Arrangements(S) ==
  {s \in [1 .. Cardinality(S) -> S] : \A x \in S : \E i \in DOMAIN s : s[i] = x}

\* C24 (as claimed): with lookups enabled and several names in the answer for
\* the tracking address, the tracking name is all the names without their
\* trailing dots, each once, joined by commas
Claim_C24 ==
  Returned("chronyFormatName") /\ e.dnsLookups
    /\ ~IsUnspecified(calc.in.tracking.IPAddr)
    /\ ~calc.in.answer.err /\ calc.in.answer.names # <<>> =>
    \E s \in Arrangements(Trimmed(calc.in.answer)) :
      calc.out[1].name = Join(s, ",")

\* C25: the remote reference metric is 0 when the tracking address is
\* 127.127.1.1 and 1 for every other address, the unspecified one included
Inv_C25 ==
  Returned("remoteTracking") =>
    /\ calc.out[1] \in {0, 1}
    /\ calc.out[1] = 0 <=> (calc.in.v4 /\ calc.in.bits = trackingLocalIP.bits)
    /\ IsUnspecified(calc.in) => calc.out[1] = 1

Wit_C25 ==
  /\ Returned("remoteTracking")
  /\ IsUnspecified(calc.in)
  /\ calc.in.v4
  /\ calc.out[1] = 1

\* C27 (as claimed): no two metrics of a scrape have the same name and the
\* same label values, also when two sources of the reply have one address
Claim_C27 ==
  Returned("sourcesMetrics") =>
    \A i, j \in DOMAIN calc.out[1] :
      i < j => calc.out[1][i] # calc.out[1][j]

\* the metrics of family f a scrape sends when its query of f returned res
\* after a sources reply that reported n sources
FamilyObs(f, res, n) ==
  IF res # "ok" THEN <<>>
  ELSE CASE f = "sources" -> SourcesObs(n)
         [] f = "tracking" -> TrackingObs
         [] OTHER -> ServerstatsObs

\* the metrics of a scrape as a function of what the scrape itself met: the
\* error of its dial, the results of its queries and the number of sources
Emitted(dialErr, res, n) ==
  FamilyObs("sources", res["sources"], n)
    \o FamilyObs("tracking", res["tracking"], n)
    \o FamilyObs("serverstats", res["serverstats"], n)
    \o UpObs(IF ~dialErr /\ (\A f \in Families : Enabled(f) => res[f] = "ok")
               THEN 1 ELSE 0)

\* C23: the metrics a completed scrape sent are determined by its own dial,
\* its own replies and the configuration, whatever scrapes ran before it and
\* however they ended: two scrapes that meet the same send the same
Inv_C23 ==
  \A p \in Procs :
    pc[p] = "done" =>
      ch[p] = Emitted(trace[p].dialErr, trace[p].res, nsrc[p])

\* a second scrape that failed at the dial, in the goroutine of a first one
\* that succeeded and left its socket open
Wit_C23 ==
  /\ scrapeID = 2
  /\ pc = [p \in Procs |-> IF p = 1 THEN "done" ELSE "idle"]
  /\ sid[1] = 2
  /\ 1 \in openConns
  /\ trace[1].dialErr
  /\ ch[1] = <<Obs("up", "up", 0, 0)>>

====
